---- MODULE Spec2Model ----
(***************************************************************************)
(* Model of src/bot.py: a Telegram bot that collects a user's images and   *)
(* assembles them into one PDF.                                            *)
(*                                                                         *)
(* Every update posted to /webhook is scheduled as its own coroutine on    *)
(* the bot's event loop (webhook, lines 32-40), so the handlers of         *)
(* different updates interleave at their await points and nowhere else.    *)
(* One action of the model is the code of a handler between two awaits.    *)
(* Coroutines start in arrival order, so the dispatch of an update and the *)
(* handler's code up to its first await form the arrival action.           *)
(*                                                                         *)
(* Strings (file names, message texts, storage paths) are sequences of     *)
(* one-character strings.  Text replies (reply_text) are taken to be       *)
(* handed to the transport without raising.  The document reply_document   *)
(* sends is the content the file at pdf_path has when line 182 is reached. *)
(***************************************************************************)
EXTENDS Integers, Sequences, FiniteSets, TLC

\* ------------------------------------------------------------------ bounds
\* Spec: one user sends updates while the clock runs past the idle timeout.
MaxUploads == 2           \* photo and document updates received
MaxTexts   == 2           \* text updates handled by the conversation
MaxPeriods == 1           \* whole timeout periods the clock runs through
MaxDrift   == 1           \* seconds observed past each period
\* SpecStorage: more uploads, all updates handled within one clock reading.
MaxUploadsStorage == 3
MaxTextsStorage   == 2
\* SpecUsers: every user uploads, and user 1 also builds
MaxUploadsUsers == 1      \* uploads of each user
MaxTextsUsers   == 2      \* text updates of user 1
\* SpecStartup: requests the web server receives while the process starts
MaxRequests == 3
\* both
MaxTasks   == 2           \* handler coroutines in progress at one time

\* ------------------------------------------------------- program constants
SESSION_TIMEOUT == 600
ASK_NAME == 1
END == -1                 \* ConversationHandler.END

None == 0                 \* no session object / no path
Users == {1, 2}
\* the values time.time() is observed at, relative to the first update
Instants == {0} \cup {k * SESSION_TIMEOUT + d : k \in 1..MaxPeriods, d \in 0..MaxDrift}

\* ---------------------------------------------------------------- strings
UC == <<"A","B","C","D","E","F","G","H","I","J","K","L","M",
        "N","O","P","Q","R","S","T","U","V","W","X","Y","Z">>
LC == <<"a","b","c","d","e","f","g","h","i","j","k","l","m",
        "n","o","p","q","r","s","t","u","v","w","x","y","z">>
Digits == <<"0","1","2","3","4","5","6","7","8","9">>
Whitespace == {" ", "\t", "\n"}

Range(s) == {s[i] : i \in DOMAIN s}

LowerChar(c) ==
  IF \E i \in DOMAIN UC : UC[i] = c
    THEN LC[CHOOSE i \in DOMAIN UC : UC[i] = c]
    ELSE c

\* str.lower()
lower(s) == [i \in DOMAIN s |-> LowerChar(s[i])]

\* str.endswith(suffix)
endswith(s, suf) ==
  /\ Len(s) >= Len(suf)
  /\ SubSeq(s, Len(s) - Len(suf) + 1, Len(s)) = suf

\* str.strip(): drop leading and trailing whitespace
RECURSIVE lstrip(_)
lstrip(s) ==
  IF s # <<>> /\ Head(s) \in Whitespace THEN lstrip(Tail(s)) ELSE s

RECURSIVE rstrip(_)
rstrip(s) ==
  IF s # <<>> /\ s[Len(s)] \in Whitespace
    THEN rstrip(SubSeq(s, 1, Len(s) - 1))
    ELSE s

strip(s) == rstrip(lstrip(s))

\* str(user_id) for a non-negative integer
RECURSIVE str(_)
str(n) ==
  IF n < 10 THEN <<Digits[n + 1]>>
            ELSE str(n \div 10) \o <<Digits[(n % 10) + 1]>>

ImageSuffixes == { <<".","j","p","g">>, <<".","j","p","e","g">>, <<".","p","n","g">> }

is_image_file_cs(filename) ==
  \E suf \in ImageSuffixes : endswith(filename, suf)

is_image_file(filename) ==
  \E suf \in ImageSuffixes : endswith(lower(filename), suf)

\* filters.Regex("(?i)pdf"): re.search, case-insensitive
MatchesPdf(text) ==
  \E i \in 1..(Len(text) - 2) : SubSeq(lower(text), i, i + 2) = <<"p","d","f">>

\* filters.COMMAND: the text starts with a bot command
WordChars == Range(UC) \cup Range(LC) \cup Range(Digits) \cup {"_"}
IsCommand(text) ==
  /\ Len(text) >= 2
  /\ text[1] = "/"
  /\ text[2] \in WordChars

\* ------------------------------------------------------------------ inputs
FileIds == {"X"}          \* file_id / file_unique_id values of the transport
DocNames == { <<"a",".","J","P","G">>, <<"a",".","g","i","f">> }
Texts == { <<"p","d","f">>, <<" ",".",".","/","a">> }
DownloadOutcomes == {"image", "garbage", "empty", "raise"}
WriteOutcomes == {"ok", "empty", "raise_open", "raise_save"}

\* ------------------------------------------------------------------- paths
\* f"{user_id}_{photo.file_id}.jpg"
PhotoPath(user_id, file_id) ==
  str(user_id) \o <<"_", file_id>> \o <<".","j","p","g">>

\* f"{user_id}_{doc.file_unique_id}_{doc.file_name}"
DocPath(user_id, file_unique_id, file_name) ==
  str(user_id) \o <<"_", file_unique_id, "_">> \o file_name

\* f"{name}.pdf"
PdfPath(name) == name \o <<".","p","d","f">>

Drop(f, k) == [x \in DOMAIN f \ {k} |-> f[x]]
Put(f, k, v) == [x \in DOMAIN f \cup {k} |-> IF x = k THEN v ELSE f[x]]

VARIABLES
  clock,          \* time.time()
  user_sessions,  \* user id -> id of its session dict, or None
  heap,           \* session dicts: id -> [images, last_active]
  files,          \* storage: path -> [kind, pages]
  conv,           \* ConversationHandler state of each user
  tasks,          \* handler coroutines in progress, by arrival number
  nseq,           \* number of updates received so far
  used,           \* updates received from each user: [uploads, texts], and
                  \* how many of its uploads were accepted (history)
  quota,          \* updates each user will send: [uploads, texts] (fixed)
  sent,           \* the last text replied: [n: arrival number, msg]
  delivered,      \* the last document delivered
  proc            \* the process: configuration, startup position, web server

vars == <<clock, user_sessions, heap, files, conv, tasks, nseq, used, quota, sent, delivered, proc>>

\* ----------------------------------------------------------------- helpers
Expired_AtTimeout(current_time, last_active) ==
  current_time - last_active >= SESSION_TIMEOUT

\* current_time - session["last_active"] > SESSION_TIMEOUT
Expired(current_time, last_active) ==
  current_time - last_active > SESSION_TIMEOUT

\* session["images"].append(file_path); the entry also carries the arrival
\* number of the upload that appended it (history, read by no handler)
AppendImage(images, file_path, n) ==
  Append(images, [path |-> file_path, seq |-> n])

\* session dicts still referenced by user_sessions or by a coroutine
Collect(h, us, ts) ==
  [o \in {x \in DOMAIN h : \/ \E u \in Users : us[u] = x
                           \/ \E t \in DOMAIN ts : ts[t].session = x}
     |-> h[o]]

\* os.path.getsize(path) > 0, for a path that exists
NonEmpty(f) == f.kind # "empty"

NoTask ==
  [user |-> 0, handler |-> "", pc |-> "", photo |-> FALSE, file_name |-> <<>>,
   current_time |-> 0, session |-> None, file_path |-> <<>>, unlinked |-> FALSE,
   exists |-> FALSE, name |-> <<>>, pdf_path |-> <<>>, doc |-> <<>>,
   doc_kind |-> "", result |-> END]

Reply(n, msg) == [n |-> n, msg |-> msg]
NoDocument == [n |-> 0, to |-> 0, filename |-> <<>>, kind |-> "", pages |-> <<>>]

CanUpload(u) ==
  used[u].uploads < quota[u].uploads /\ Cardinality(DOMAIN tasks) < MaxTasks
CanText(u) ==
  used[u].texts < quota[u].texts /\ Cardinality(DOMAIN tasks) < MaxTasks

\* files opened for writing whose path is removed are unlinked from it
Unlink(ts, removed) ==
  [n \in DOMAIN ts |->
     IF ts[n].pc = "download" /\ ts[n].file_path \in removed
       THEN [ts[n] EXCEPT !.unlinked = TRUE]
       ELSE ts[n]]

Silent == [uploads |-> 0, texts |-> 0]

InitState ==
  /\ clock = 0
  /\ user_sessions = [u \in Users |-> None]
  /\ heap = <<>>
  /\ files = <<>>
  /\ conv = [u \in Users |-> END]
  /\ tasks = <<>>
  /\ nseq = 0
  /\ used = [u \in Users |-> [uploads |-> 0, texts |-> 0, accepted |-> 0]]
  /\ sent = Reply(0, "")
  /\ delivered = NoDocument

\* the process once run_bot has reached its sleep loop (lines 230-231)
Started ==
  [token |-> TRUE, url |-> TRUE, main |-> "running", flask |-> "serving",
   telegram_app |-> TRUE, home |-> 0, scheduled |-> 0, processed |-> 0, failed |-> 0]

Init ==
  /\ InitState
  /\ proc = Started
  /\ quota = [u \in Users |->
       IF u = 1 THEN [uploads |-> MaxUploads, texts |-> MaxTexts] ELSE Silent]

InitStorage ==
  /\ InitState
  /\ proc = Started
  /\ quota = [u \in Users |->
       IF u = 1 THEN [uploads |-> MaxUploadsStorage, texts |-> MaxTextsStorage] ELSE Silent]

\* time passes between two steps of the event loop
Tick ==
  \E now \in Instants :
    /\ now > clock
    /\ clock' = now
    /\ UNCHANGED <<proc, user_sessions, heap, files, conv, tasks, nseq, used, quota, sent, delivered>>

\* ----------------------------------------------------------- handle_images
\* Lines 54-59: user_sessions.setdefault and the idle-timeout clear.
\* Gives the session id and the heap after them, for update n of user u.
SessionOf_Global(u, n) ==
  LET live == {v \in Users : user_sessions[v] # None}
  IN  IF live = {} THEN n ELSE user_sessions[CHOOSE v \in live : TRUE]

\* line 56: the dict user_sessions holds under user_id, or a new one
SessionOf(u, n) == IF user_sessions[u] = None THEN n ELSE user_sessions[u]

Setdefault_NotStored(us, u, s) == us

\* line 56: the mapping after user_sessions.setdefault(user_id, {...})
Setdefault(us, u, s) == [us EXCEPT ![u] = s]

HeapAfterSetdefault(u, n) ==
  LET s == SessionOf(u, n)
      h0 == IF user_sessions[u] = None
              THEN Put(heap, n, [images |-> <<>>, last_active |-> clock])
              ELSE heap
  IN  IF Expired(clock, h0[s].last_active)
        THEN [h0 EXCEPT ![s].images = <<>>]
        ELSE h0

\* A photo arrives: lines 54-65, up to `await ...get_file()`.
HandleImagesPhoto(u, file_id) ==
  LET n == nseq + 1
      s == SessionOf(u, n)
      t == [NoTask EXCEPT !.user = u, !.handler = "handle_images",
                          !.pc = "get_file", !.photo = TRUE,
                          !.current_time = clock, !.session = s,
                          !.file_path = PhotoPath(u, file_id)]
  IN  /\ CanUpload(u)
      /\ nseq' = n /\ used' = [used EXCEPT ![u].uploads = @ + 1] /\ quota' = quota
      /\ user_sessions' = Setdefault(user_sessions, u, s)
      /\ tasks' = Put(tasks, n, t)
      /\ heap' = Collect(HeapAfterSetdefault(u, n), user_sessions', tasks')
      /\ UNCHANGED <<proc, clock, files, conv, sent, delivered>>

\* A document with an image MIME type arrives: lines 54-59 and 70-79.
\* file_name is a string, or None (then .lower() raises, line 45 -> 97-99).
HandleImagesDocument(u, file_unique_id, file_name, has_name) ==
  LET n == nseq + 1
      s == SessionOf(u, n)
      accepted == has_name /\ is_image_file(file_name)
      t == [NoTask EXCEPT !.user = u, !.handler = "handle_images",
                          !.pc = "get_file", !.file_name = file_name,
                          !.current_time = clock, !.session = s,
                          !.file_path = DocPath(u, file_unique_id, file_name)]
  IN  /\ CanUpload(u)
      /\ nseq' = n /\ used' = [used EXCEPT ![u].uploads = @ + 1] /\ quota' = quota
      /\ user_sessions' = Setdefault(user_sessions, u, s)
      /\ tasks' = IF accepted THEN Put(tasks, n, t) ELSE tasks
      /\ heap' = Collect(HeapAfterSetdefault(u, n), user_sessions', tasks')
      /\ sent' = IF accepted THEN sent
                 ELSE IF has_name THEN Reply(n, "unsupported")
                 ELSE Reply(n, "upload_error")
      /\ UNCHANGED <<proc, clock, files, conv, delivered>>

\* get_file() returns or raises; on return the file is opened with 'wb'
\* (created, or truncated if it exists) and the download awaited:
\* lines 65-68 and 74-76.
HandleImagesGetFile(n, ok) ==
  LET t == tasks[n]
      p == t.file_path
  IN  /\ n \in DOMAIN tasks
      /\ t.handler = "handle_images" /\ t.pc = "get_file"
      /\ IF ok
           THEN /\ files' = Put(files, p, [kind |-> "empty", pages |-> <<>>])
                /\ tasks' = [tasks EXCEPT ![n].pc = "download"]
                /\ sent' = sent
           ELSE /\ files' = files
                /\ tasks' = Drop(tasks, n)
                /\ sent' = Reply(n, "upload_error")
      /\ heap' = Collect(heap, user_sessions, tasks')
      /\ UNCHANGED <<proc, clock, user_sessions, conv, nseq, used, quota, delivered>>

LocalSession_Reread(t) == user_sessions[t.user]

\* lines 87-88 write through `session`, the dict bound at line 56
LocalSession(t) == t.session

\* download() returns or raises: lines 68/76 and 81-91, up to the reply.
\* The bytes go to the file that was opened, which may have been unlinked
\* from its path since; an empty download writes nothing, so the file stays
\* as the open at line 67/75, or another upload writing to it, left it.
HandleImagesDownload(n, outcome) ==
  LET t == tasks[n]
      p == t.file_path
      linked == ~t.unlinked
      written == IF outcome \notin {"raise", "empty"} /\ linked
                   THEN [files EXCEPT ![p].kind = outcome]
                   ELSE files
      exists == p \in DOMAIN written
      size_pos == exists /\ NonEmpty(written[p])
  IN  /\ n \in DOMAIN tasks
      /\ t.handler = "handle_images" /\ t.pc = "download"
      /\ files' = written
      /\ IF outcome = "raise"
           THEN /\ tasks' = Drop(tasks, n)
                /\ sent' = Reply(n, "upload_error")
                /\ heap' = Collect(heap, user_sessions, tasks')
                /\ used' = used
           ELSE IF size_pos
           THEN /\ tasks' = Drop(tasks, n)
                /\ sent' = Reply(n, "saved")
                /\ used' = [used EXCEPT ![t.user].accepted = @ + 1]
                /\ heap' = Collect(
                     [heap EXCEPT ![LocalSession(t)].images = AppendImage(@, p, n),
                                  ![LocalSession(t)].last_active = t.current_time],
                     user_sessions, tasks')
           ELSE /\ tasks' = [tasks EXCEPT ![n].pc = "reply_empty", ![n].exists = exists]
                /\ sent' = Reply(n, "empty")
                /\ heap' = heap
                /\ used' = used
      /\ UNCHANGED <<proc, clock, user_sessions, conv, nseq, quota, delivered>>

\* The "file empty" reply returns: lines 92-93 (os.remove raises if the
\* path is gone by now: lines 97-99).
HandleImagesRemoveEmpty(n) ==
  LET t == tasks[n]
      p == t.file_path
  IN  /\ n \in DOMAIN tasks
      /\ t.handler = "handle_images" /\ t.pc = "reply_empty"
      /\ IF t.exists
           THEN IF p \in DOMAIN files
                  THEN files' = Drop(files, p) /\ sent' = sent
                  ELSE files' = files /\ sent' = Reply(n, "upload_error")
           ELSE files' = files /\ sent' = sent
      /\ tasks' = Unlink(Drop(tasks, n), DOMAIN files \ DOMAIN files')
      /\ heap' = Collect(heap, user_sessions, tasks')
      /\ UNCHANGED <<proc, clock, user_sessions, conv, nseq, used, quota, delivered>>

\* ---------------------------------------------------------- handle_trigger
\* A text containing "pdf" arrives outside the naming state: lines 103-117,
\* up to the reply.
TriggerOutcome_NoEmptyCheck(s, h, current_time) ==
  IF s = None THEN "no_images"
  ELSE IF Expired(current_time, h[s].last_active) THEN "expired"
  ELSE "ask_name"

TriggerOutcome_NoTimeoutCheck(s, h, current_time) ==
  IF s = None \/ h[s].images = <<>> THEN "no_images"
  ELSE "ask_name"

\* lines 107-117: which of the three replies handle_trigger gives
TriggerOutcome(s, h, current_time) ==
  IF s = None \/ h[s].images = <<>> THEN "no_images"
  ELSE IF Expired(current_time, h[s].last_active) THEN "expired"
  ELSE "ask_name"

HandleTrigger(u, text) ==
  LET n == nseq + 1
      s == user_sessions[u]
      outcome == TriggerOutcome(s, heap, clock)
      expired == outcome = "expired"
      t == [NoTask EXCEPT !.user = u, !.handler = "handle_trigger",
                          !.pc = "reply", !.current_time = clock,
                          !.result = IF outcome = "ask_name" THEN ASK_NAME ELSE END]
  IN  /\ CanText(u)
      /\ conv[u] = END
      /\ text # <<>> /\ MatchesPdf(text)
      /\ nseq' = n /\ used' = [used EXCEPT ![u].texts = @ + 1] /\ quota' = quota
      /\ tasks' = Put(tasks, n, t)
      /\ heap' = IF expired
                   THEN [heap EXCEPT ![s].images = <<>>, ![s].last_active = clock]
                   ELSE heap
      /\ sent' = Reply(n, outcome)
      /\ UNCHANGED <<proc, clock, user_sessions, files, conv, delivered>>

\* The reply returns and handle_trigger returns its state to the
\* ConversationHandler: lines 109, 115, 118.
HandleTriggerReturn(n) ==
  LET t == tasks[n]
  IN  /\ n \in DOMAIN tasks
      /\ t.handler = "handle_trigger" /\ t.pc = "reply"
      /\ conv' = [conv EXCEPT ![t.user] = t.result]
      /\ tasks' = Drop(tasks, n)
      /\ heap' = Collect(heap, user_sessions, tasks')
      /\ UNCHANGED <<proc, clock, user_sessions, files, nseq, used, quota, sent, delivered>>

\* -------------------------------------------------------- receive_pdf_name
\* Image.open(path) and convert("RGB") succeed
Decodes(fs, path) == path \in DOMAIN fs /\ fs[path].kind = "image"

RECURSIVE DecodeAll_AbortOnFailure(_, _)
DecodeAll_AbortOnFailure(images, fs) ==
  IF images = <<>> THEN <<>>
  ELSE IF Decodes(fs, Head(images).path)
    THEN <<Head(images)>> \o DecodeAll_AbortOnFailure(Tail(images), fs)
    ELSE <<>>

\* Lines 126-136: the decoded images, in the order of the loop
RECURSIVE DecodeAll(_, _)
DecodeAll(images, fs) ==
  IF images = <<>> THEN <<>>
  ELSE IF Decodes(fs, Head(images).path)
    THEN <<Head(images)>> \o DecodeAll(Tail(images), fs)
    ELSE DecodeAll(Tail(images), fs)

\* Lines 190-195: os.remove of each path in turn; the first path that is
\* missing raises and ends the cleanup
RECURSIVE RemoveAll(_, _)
RemoveAll(fs, paths) ==
  IF paths = <<>> THEN fs
  ELSE IF Head(paths) \notin DOMAIN fs THEN fs
  ELSE RemoveAll(Drop(fs, Head(paths)), Tail(paths))

StorageAfterSend_Always(fs, pdf_path, paths, ok) ==
  RemoveAll(fs, <<pdf_path>> \o paths)

\* Lines 181-195: the storage after reply_document returned (ok) or raised
StorageAfterSend(fs, pdf_path, paths, ok) ==
  IF ok THEN RemoveAll(fs, <<pdf_path>> \o paths) ELSE fs

\* line 123
PdfName(text) == strip(text)

NoValidImages_Skipped(images) == FALSE

ReceiveResult_RetryDelivery(outcome) ==
  IF outcome = "send_error" THEN ASK_NAME ELSE END

\* lines 141, 179, 187, 198: the state receive_pdf_name returns
ReceiveResult(outcome) == END

\* line 138: `if not images`
NoValidImages(images) == images = <<>>

\* The file written by lines 147-165 under each outcome of open and save
WritePdf(fs, pdf_path, pages, w) ==
  CASE w = "ok"         -> Put(fs, pdf_path, [kind |-> "pdf", pages |-> pages])
    [] w = "empty"      -> Put(fs, pdf_path, [kind |-> "empty", pages |-> <<>>])
    [] w = "raise_save" -> Put(fs, pdf_path, [kind |-> "empty", pages |-> <<>>])
    [] w = "raise_open" -> fs

\* A text that is no command arrives in the naming state: lines 122-182,
\* up to the reply or to `await ...reply_document(...)`.
ReceivePdfName(u, text, w) ==
  LET n == nseq + 1
      s == user_sessions[u]
      name == PdfName(text)
      images == DecodeAll(IF s = None THEN <<>> ELSE heap[s].images, files)
      pdf_path == PdfPath(name)
      raised == w \in {"raise_open", "raise_save"}
      written == WritePdf(files, pdf_path, images, w)
      t == [NoTask EXCEPT !.user = u, !.handler = "receive_pdf_name",
                          !.session = s, !.name = name]
  IN  /\ CanText(u)
      /\ conv[u] = ASK_NAME
      /\ text # <<>> /\ ~IsCommand(text)
      /\ nseq' = n /\ used' = [used EXCEPT ![u].texts = @ + 1] /\ quota' = quota
      /\ IF NoValidImages(images)
           THEN /\ w = "ok"
                /\ files' = files
                /\ tasks' = Put(tasks, n, [t EXCEPT !.pc = "reply", !.session = None,
                                                    !.result = ReceiveResult("no_valid_images")])
                /\ sent' = Reply(n, "no_valid_images")
           ELSE /\ files' = written
                /\ IF raised
                     THEN /\ tasks' = Put(tasks, n, [t EXCEPT !.pc = "reply", !.session = None,
                                                              !.pdf_path = pdf_path,
                                                              !.result = ReceiveResult("pdf_error")])
                          /\ sent' = Reply(n, "pdf_error")
                     ELSE /\ tasks' = Put(tasks, n,
                                [t EXCEPT !.pc = "send", !.pdf_path = pdf_path,
                                          !.doc = written[pdf_path].pages,
                                          !.doc_kind = written[pdf_path].kind])
                          /\ sent' = sent
      /\ heap' = Collect(heap, user_sessions, tasks')
      /\ UNCHANGED <<proc, clock, user_sessions, conv, delivered>>

\* reply_document returns: lines 183 and 189-198 (cleanup, session reset,
\* return END), or it raises: lines 184-186, up to the reply.
ReceivePdfNameSend(n, ok) ==
  LET t == tasks[n]
      u == t.user
      paths == [i \in DOMAIN heap[t.session].images |-> heap[t.session].images[i].path]
  IN  /\ n \in DOMAIN tasks
      /\ t.handler = "receive_pdf_name" /\ t.pc = "send"
      /\ files' = StorageAfterSend(files, t.pdf_path, paths, ok)
      /\ IF ok
           THEN /\ delivered' = [n |-> n, to |-> u, filename |-> PdfPath(t.name),
                                 kind |-> t.doc_kind, pages |-> t.doc]
                /\ user_sessions' = [user_sessions EXCEPT ![u] = n]
                /\ tasks' = Unlink(Drop(tasks, n), DOMAIN files \ DOMAIN files')
                /\ heap' = Collect(Put(heap, n, [images |-> <<>>, last_active |-> clock]),
                                   user_sessions', tasks')
                /\ conv' = [conv EXCEPT ![u] = ReceiveResult("success")]
                /\ sent' = sent
           ELSE /\ tasks' = Unlink([tasks EXCEPT ![n].pc = "reply", ![n].session = None,
                                                  ![n].result = ReceiveResult("send_error")],
                                    DOMAIN files \ DOMAIN files')
                /\ sent' = Reply(n, "send_error")
                /\ heap' = Collect(heap, user_sessions, tasks')
                /\ UNCHANGED <<delivered, user_sessions, conv>>
      /\ UNCHANGED <<proc, clock, nseq, used, quota>>

\* An error reply returns and receive_pdf_name returns END: lines 141, 179, 187.
ReceivePdfNameReturn(n) ==
  LET t == tasks[n]
  IN  /\ n \in DOMAIN tasks
      /\ t.handler = "receive_pdf_name" /\ t.pc = "reply"
      /\ conv' = [conv EXCEPT ![t.user] = t.result]
      /\ tasks' = Drop(tasks, n)
      /\ heap' = Collect(heap, user_sessions, tasks')
      /\ UNCHANGED <<proc, clock, user_sessions, files, nseq, used, quota, sent, delivered>>

\* ----------------------------------------------------------- specification
Next ==
  \/ Tick
  \/ \E u \in Users, f \in FileIds : HandleImagesPhoto(u, f)
  \/ \E u \in Users, f \in FileIds, fn \in DocNames : HandleImagesDocument(u, f, fn, TRUE)
  \/ \E u \in Users, f \in FileIds : HandleImagesDocument(u, f, <<>>, FALSE)
  \/ \E n \in DOMAIN tasks, ok \in BOOLEAN : HandleImagesGetFile(n, ok)
  \/ \E n \in DOMAIN tasks, o \in DownloadOutcomes : HandleImagesDownload(n, o)
  \/ \E n \in DOMAIN tasks : HandleImagesRemoveEmpty(n)
  \/ \E u \in Users, x \in Texts : HandleTrigger(u, x)
  \/ \E n \in DOMAIN tasks : HandleTriggerReturn(n)
  \/ \E u \in Users, x \in Texts, w \in WriteOutcomes : ReceivePdfName(u, x, w)
  \/ \E n \in DOMAIN tasks, ok \in BOOLEAN : ReceivePdfNameSend(n, ok)
  \/ \E n \in DOMAIN tasks : ReceivePdfNameReturn(n)

Spec == Init /\ [][Next]_vars

\* the same handlers with every user active
InitUsers ==
  /\ InitState
  /\ proc = Started
  /\ quota = [u \in Users |->
       [uploads |-> MaxUploadsUsers, texts |-> IF u = 1 THEN MaxTextsUsers ELSE 0]]

SpecUsers == InitUsers /\ [][Next]_vars

\* the same handlers, all run within one reading of the clock
NextStorage ==
  \/ \E u \in Users, f \in FileIds : HandleImagesPhoto(u, f)
  \/ \E u \in Users, f \in FileIds, fn \in DocNames : HandleImagesDocument(u, f, fn, TRUE)
  \/ \E u \in Users, f \in FileIds : HandleImagesDocument(u, f, <<>>, FALSE)
  \/ \E n \in DOMAIN tasks, ok \in BOOLEAN : HandleImagesGetFile(n, ok)
  \/ \E n \in DOMAIN tasks, o \in DownloadOutcomes : HandleImagesDownload(n, o)
  \/ \E n \in DOMAIN tasks : HandleImagesRemoveEmpty(n)
  \/ \E u \in Users, x \in Texts : HandleTrigger(u, x)
  \/ \E n \in DOMAIN tasks : HandleTriggerReturn(n)
  \/ \E u \in Users, x \in Texts, w \in WriteOutcomes : ReceivePdfName(u, x, w)
  \/ \E n \in DOMAIN tasks, ok \in BOOLEAN : ReceivePdfNameSend(n, ok)
  \/ \E n \in DOMAIN tasks : ReceivePdfNameReturn(n)

SpecStorage == InitStorage /\ [][NextStorage]_vars

\* ------------------------------------------------------------------ startup
\* Lines 241-254 start the web server in a daemon thread and then run
\* run_bot on the main thread; the two threads run in either order.
HandlerVars == <<clock, user_sessions, heap, files, conv, tasks, nseq, used, quota, sent, delivered>>

\* the state at line 241, for each setting of the two environment variables
InitStartup ==
  /\ InitState
  /\ quota = [u \in Users |-> Silent]
  /\ \E token, url \in BOOLEAN :
       proc = [token |-> token, url |-> url, main |-> "main", flask |-> "off",
               telegram_app |-> FALSE, home |-> 0, scheduled |-> 0,
               processed |-> 0, failed |-> 0]

\* the process has neither exited nor died of an exception
Alive == proc.main \notin {"exited", "crashed"}

Requests == proc.home + proc.scheduled + proc.failed

\* lines 242-247: the event loop is created and the Flask thread started
MainStartFlask ==
  /\ proc.main = "main"
  /\ proc' = [proc EXCEPT !.main = "run_bot", !.flask = "started"]
  /\ UNCHANGED HandlerVars

\* run_flask, lines 235-237: app.run binds the port and serves
RunFlask ==
  /\ Alive /\ proc.flask = "started"
  /\ proc' = [proc EXCEPT !.flask = "serving"]
  /\ UNCHANGED HandlerVars

\* run_bot, lines 204-224: exit(1) when BOT_TOKEN or WEBHOOK_URL is unset,
\* else telegram_app is built and set_webhook awaited
RunBotConfig ==
  /\ proc.main = "run_bot"
  /\ IF ~proc.token \/ ~proc.url
       THEN proc' = [proc EXCEPT !.main = "exited"]
       ELSE proc' = [proc EXCEPT !.main = "set_webhook", !.telegram_app = TRUE]
  /\ UNCHANGED HandlerVars

\* lines 224-231: each await of run_bot returns, or raises and ends the
\* process (line 251 catches KeyboardInterrupt only)
RunBotAwait(ok) ==
  /\ proc.main \in {"set_webhook", "initialize", "start"}
  /\ proc' = [proc EXCEPT !.main =
       IF ~ok THEN "crashed"
       ELSE CASE proc.main = "set_webhook" -> "initialize"
              [] proc.main = "initialize"  -> "start"
              [] proc.main = "start"       -> "running"]
  /\ UNCHANGED HandlerVars

\* home, lines 27-29: the health check answers
Home ==
  /\ Alive /\ proc.flask = "serving" /\ Requests < MaxRequests
  /\ proc' = [proc EXCEPT !.home = @ + 1]
  /\ UNCHANGED HandlerVars

\* webhook, lines 32-40: telegram_app.bot raises while telegram_app is
\* None (the request fails); else the update is scheduled on the loop
Webhook ==
  /\ Alive /\ proc.flask = "serving" /\ Requests < MaxRequests
  /\ IF proc.telegram_app
       THEN proc' = [proc EXCEPT !.scheduled = @ + 1]
       ELSE proc' = [proc EXCEPT !.failed = @ + 1]
  /\ UNCHANGED HandlerVars

\* line 37: the loop runs a scheduled process_update while run_bot awaits
ProcessUpdate ==
  /\ proc.main \in {"set_webhook", "initialize", "start", "running"}
  /\ proc.processed < proc.scheduled
  /\ proc' = [proc EXCEPT !.processed = @ + 1]
  /\ UNCHANGED HandlerVars

NextStartup ==
  \/ MainStartFlask
  \/ RunFlask
  \/ RunBotConfig
  \/ \E ok \in BOOLEAN : RunBotAwait(ok)
  \/ Home
  \/ Webhook
  \/ ProcessUpdate

SpecStartup == InitStartup /\ [][NextStartup]_vars

\* ================================================================== claims
\* the image list of user u's current session
ImagesOf(u) == IF user_sessions[u] = None THEN <<>> ELSE heap[user_sessions[u]].images

\* update n is an upload whose download returns or raises in this step
DownloadEnds(n) ==
  /\ n \in DOMAIN tasks
  /\ tasks[n].handler = "handle_images" /\ tasks[n].pc = "download"
  /\ (n \notin DOMAIN tasks' \/ tasks'[n].pc # "download")

\* C1: the paths of a user's session image list appear in the order in
\* which their uploads arrived, under every interleaving of the handlers.
C1_UploadOrder ==
  \A u \in Users :
    \A i, j \in DOMAIN ImagesOf(u) :
      i < j => ImagesOf(u)[i].seq < ImagesOf(u)[j].seq

\* C2: an upload is accepted (its path appended to the session list and
\* "Image saved" replied) if and only if it is a photo, or a document whose
\* name ends in .jpg, .jpeg or .png whatever the case of its letters, and
\* the downloaded file has non-zero length; otherwise nothing is appended.
HasImageExtension(fn) ==
  \E suf \in ImageSuffixes :
    /\ Len(fn) >= Len(suf)
    /\ \A i \in 1..Len(suf) : LowerChar(fn[Len(fn) - Len(suf) + i]) = suf[i]

C2_Saved(n) ==
  LET t == tasks[n]
  IN  /\ sent' = Reply(n, "saved")
      /\ t.session \in DOMAIN heap' =>
           heap'[t.session].images =
             Append(heap[t.session].images, [path |-> t.file_path, seq |-> n])

C2_Rejected(n) ==
  /\ sent' # Reply(n, "saved")
  /\ \A o \in DOMAIN heap \cap DOMAIN heap' :
       Range(heap'[o].images) \subseteq Range(heap[o].images)

C2_Step ==
  /\ \A u \in Users, f \in FileIds, fn \in DocNames :
       HandleImagesDocument(u, f, fn, TRUE) =>
         IF HasImageExtension(fn)
           THEN nseq' \in DOMAIN tasks' /\ tasks'[nseq'].pc = "get_file"
           ELSE nseq' \notin DOMAIN tasks' /\ C2_Rejected(nseq')
  /\ \A u \in Users, f \in FileIds :
       HandleImagesPhoto(u, f) =>
         nseq' \in DOMAIN tasks' /\ tasks'[nseq'].pc = "get_file"
  /\ \A n \in DOMAIN tasks, o \in DownloadOutcomes :
       HandleImagesDownload(n, o) =>
         LET p == tasks[n].file_path
         IN  IF o # "raise" /\ p \in DOMAIN files' /\ files'[p].kind # "empty"
               THEN C2_Saved(n)
               ELSE C2_Rejected(n)
  /\ \A o \in DOMAIN heap \cap DOMAIN heap' :
       Len(heap'[o].images) > Len(heap[o].images) =>
         \E n \in DOMAIN tasks :
           /\ DownloadEnds(n)
           /\ tasks[n].photo \/ HasImageExtension(tasks[n].file_name)

C2_AcceptIff == [][C2_Step]_vars

C2_Witness ==
  /\ sent.msg = "saved"
  /\ \E i \in DOMAIN ImagesOf(1) :
       /\ ImagesOf(1)[i].seq = sent.n
       /\ ImagesOf(1)[i].path = DocPath(1, "X", <<"a",".","J","P","G">>)

\* an update of user u arrives in this step, and which handler takes it
UploadArrives(u) == used'[u].uploads = used[u].uploads + 1
TextArrives(u) == used'[u].texts = used[u].texts + 1
TriggerArrives(u) == TextArrives(u) /\ conv[u] = END
NameArrives(u) == TextArrives(u) /\ conv[u] = ASK_NAME

\* seconds since the last_active of user u's session
Gap(u) == clock - heap[user_sessions[u]].last_active

\* the idle timeout applied to the session of user u in this step
TimeoutApplied(u) ==
  LET s == user_sessions[u]
  IN  IF Gap(u) > 600
        THEN heap'[s].images = <<>>
        ELSE heap'[s].images = heap[s].images

\* C3 as stated: for every kind of next interaction of a user (upload,
\* trigger, name submission), a gap of more than 600 seconds since
\* last_active clears the accumulated images before the interaction is
\* processed, and a gap of 600 seconds or less clears nothing.
C3_TimeoutEveryInteraction ==
  [][\A u \in Users :
       (UploadArrives(u) \/ TriggerArrives(u) \/ NameArrives(u))
         /\ user_sessions[u] # None
       => TimeoutApplied(u)]_vars

\* C3 amended: the same for image uploads and triggers only; a name
\* submission makes no timeout check.
C3_TimeoutUploadTrigger ==
  [][\A u \in Users :
       (UploadArrives(u) \/ TriggerArrives(u)) /\ user_sessions[u] # None
       => TimeoutApplied(u)]_vars

C3_Witness ==
  \E n \in DOMAIN tasks :
    /\ tasks[n].handler = "handle_images" /\ tasks[n].pc = "get_file"
    /\ tasks[n].current_time - heap[tasks[n].session].last_active > 600
    /\ heap[tasks[n].session].images = <<>>
    /\ \E p \in DOMAIN files : files[p].kind = "image"

\* C4: a trigger for a user with no session or an empty image list reports
\* "no images" and returns END; the value a trigger returns is the state the
\* conversation takes, so ASK_NAME is never entered from such a trigger.
C4_EmptyTrigger ==
  [][/\ \A u \in Users :
          TriggerArrives(u) /\ ImagesOf(u) = <<>> =>
            /\ sent' = Reply(nseq', "no_images")
            /\ tasks'[nseq'].handler = "handle_trigger"
            /\ tasks'[nseq'].result = END
     /\ \A n \in DOMAIN tasks :
          tasks[n].handler = "handle_trigger" /\ n \notin DOMAIN tasks' =>
            conv'[tasks[n].user] = tasks[n].result]_vars

C4_Witness ==
  /\ sent.msg = "no_images"
  /\ sent.n \in DOMAIN tasks
  /\ tasks[sent.n].result = END
  /\ user_sessions[tasks[sent.n].user] # None
  /\ conv[tasks[sent.n].user] = END

\* C5: the pages of the PDF built by receive_pdf_name are exactly the
\* images of the session list that decode, one page each, in list order;
\* images that fail to decode are skipped, and the build goes on whenever
\* at least one image decodes.
C5_Decodable(u) ==
  SelectSeq(ImagesOf(u),
            LAMBDA e : e.path \in DOMAIN files /\ files[e.path].kind = "image")

C5_PagesAreDecodedImages ==
  [][/\ \A u \in Users :
          NameArrives(u) =>
            LET n == nseq'
                good == C5_Decodable(u)
            IN  IF good = <<>>
                  THEN sent' = Reply(n, "no_valid_images") /\ files' = files
                  ELSE \/ sent' = Reply(n, "pdf_error") /\ tasks'[n].pc = "reply"
                       \/ /\ tasks'[n].pc = "send"
                          /\ tasks'[n].pdf_path \in DOMAIN files'
                          /\ tasks'[n].doc = files'[tasks'[n].pdf_path].pages
                          /\ tasks'[n].doc_kind = "pdf" => tasks'[n].doc = good
     /\ delivered' # delivered =>
          /\ delivered'.n \in DOMAIN tasks
          /\ delivered'.pages = tasks[delivered'.n].doc]_vars

C5_Witness ==
  \E n \in DOMAIN tasks :
    /\ tasks[n].handler = "receive_pdf_name" /\ tasks[n].pc = "send"
    /\ tasks[n].doc_kind = "pdf"
    /\ LET imgs == heap[tasks[n].session].images
       IN  /\ Len(imgs) = 2
           /\ imgs[1].path \in DOMAIN files
           /\ files[imgs[1].path].kind = "garbage"
           /\ tasks[n].doc = <<imgs[2]>>

\* the delivery of the document of update n succeeds in this step
Delivers(n) ==
  /\ n \in DOMAIN tasks
  /\ tasks[n].handler = "receive_pdf_name" /\ tasks[n].pc = "send"
  /\ delivered' # delivered /\ delivered'.n = n

\* C6: after every successful delivery the user's session image list is
\* empty, and neither the PDF file nor any source image file that was in
\* the session's list exists on storage.
C6_CleanAfterDelivery ==
  [][\A n \in DOMAIN tasks :
       Delivers(n) =>
         /\ heap'[user_sessions'[tasks[n].user]].images = <<>>
         /\ tasks[n].pdf_path \notin DOMAIN files'
         /\ \A i \in DOMAIN heap[tasks[n].session].images :
              heap[tasks[n].session].images[i].path \notin DOMAIN files']_vars

\* C7: the PDF path and the delivered file name are built from the name with
\* every character outside [A-Za-z0-9_-. ] replaced by "_", so that the
\* path holds no path separator.
SafeChars == Range(UC) \cup Range(LC) \cup Range(Digits) \cup {"_", "-", ".", " "}
Sanitize(name) == [i \in DOMAIN name |-> IF name[i] \in SafeChars THEN name[i] ELSE "_"]

C7_SanitizedPath ==
  /\ \A n \in DOMAIN tasks :
       tasks[n].handler = "receive_pdf_name" /\ tasks[n].pdf_path # <<>> =>
         /\ tasks[n].pdf_path = PdfPath(Sanitize(tasks[n].name))
         /\ "/" \notin Range(tasks[n].pdf_path)
  /\ "/" \notin Range(delivered.filename)
  /\ \A p \in DOMAIN files : "/" \notin Range(p)

\* C8: if writing the PDF fails, or the written file is missing or has zero
\* bytes, receive_pdf_name reports an error, delivers nothing and leaves
\* the session unchanged.
C8_WriteFailureReported ==
  [][\A u \in Users :
       NameArrives(u) /\ C5_Decodable(u) # <<>> =>
         LET n == nseq'
             p == PdfPath(tasks'[n].name)
         IN  (p \notin DOMAIN files' \/ files'[p].kind = "empty") =>
               /\ sent' = Reply(n, "pdf_error")
               /\ tasks'[n].pc = "reply"
               /\ heap' = heap]_vars

\* C9: a receive_pdf_name call that ends with "no valid images" or with a
\* delivery failure leaves the session image list as it was and deletes no
\* source image file: none of its steps, short of a successful delivery,
\* changes a session or removes or alters a stored file other than the PDF
\* it writes.
C9_SessionKept ==
  /\ user_sessions' = user_sessions
  /\ \A o \in DOMAIN heap \cap DOMAIN heap' : heap'[o] = heap[o]

C9_FailedBuildKeepsSession ==
  [][/\ \A u \in Users :
          NameArrives(u) =>
            /\ C9_SessionKept
            /\ \A p \in DOMAIN files :
                 p # PdfPath(tasks'[nseq'].name) =>
                   p \in DOMAIN files' /\ files'[p] = files[p]
            /\ sent' = Reply(nseq', "no_valid_images") => files' = files
            /\ \A o \in DOMAIN heap : \A i \in DOMAIN heap[o].images :
                 heap[o].images[i].path # PdfPath(tasks'[nseq'].name)
     /\ \A n \in DOMAIN tasks :
          /\ tasks[n].handler = "receive_pdf_name"
          /\ \/ tasks[n].pc = "send" /\ sent' = Reply(n, "send_error")
             \/ tasks[n].pc = "reply" /\ n \notin DOMAIN tasks'
          => C9_SessionKept /\ files' = files]_vars

C9_Witness ==
  /\ sent.msg = "send_error"
  /\ sent.n \in DOMAIN tasks
  /\ tasks[sent.n].pc = "reply"
  /\ ImagesOf(tasks[sent.n].user) # <<>>
  /\ \A i \in DOMAIN ImagesOf(tasks[sent.n].user) :
       ImagesOf(tasks[sent.n].user)[i].path \in DOMAIN files

\* C10: two distinct uploads are never stored under the same path: no
\* session image list holds a path twice, and no upload opens for writing
\* the stored file of another accepted upload.
C10_NoPathCollision ==
  /\ \A o \in DOMAIN heap :
       \A i, j \in DOMAIN heap[o].images :
         i # j => heap[o].images[i].path # heap[o].images[j].path
  /\ \A n \in DOMAIN tasks :
       tasks[n].handler = "handle_images" /\ tasks[n].pc = "download" =>
         \A o \in DOMAIN heap : \A i \in DOMAIN heap[o].images :
           heap[o].images[i].path # tasks[n].file_path

\* C11: a trigger on a session with a non-empty image list whose
\* last_active is more than 600 seconds old clears the list, sets
\* last_active to the current time, reports "expired" and returns END; a
\* trigger returns ASK_NAME only when the list is non-empty and not expired,
\* and the conversation enters ASK_NAME only by such a trigger returning.
C11_ExpiredTrigger ==
  [][/\ \A u \in Users :
          TriggerArrives(u) /\ ImagesOf(u) # <<>> /\ Gap(u) > 600 =>
            /\ heap'[user_sessions[u]].images = <<>>
            /\ heap'[user_sessions[u]].last_active = clock
            /\ sent' = Reply(nseq', "expired")
            /\ tasks'[nseq'].result = END
     /\ \A u \in Users :
          TriggerArrives(u) /\ tasks'[nseq'].result = ASK_NAME =>
            /\ ImagesOf(u) # <<>> /\ Gap(u) <= 600
            /\ sent' = Reply(nseq', "ask_name")
            /\ heap' = heap
     /\ \A u \in Users :
          conv'[u] = ASK_NAME /\ conv[u] # ASK_NAME =>
            \E n \in DOMAIN tasks \ DOMAIN tasks' :
              /\ tasks[n].handler = "handle_trigger" /\ tasks[n].user = u
              /\ tasks[n].result = ASK_NAME
     /\ \A n \in DOMAIN tasks \ DOMAIN tasks' :
          tasks[n].handler = "handle_trigger" /\ tasks[n].result = END =>
            conv'[tasks[n].user] = END]_vars

C11_Witness ==
  /\ sent.msg = "expired"
  /\ sent.n \in DOMAIN tasks
  /\ tasks[sent.n].handler = "handle_trigger" /\ tasks[sent.n].result = END
  /\ ImagesOf(tasks[sent.n].user) = <<>>
  /\ heap[user_sessions[tasks[sent.n].user]].last_active = clock
  /\ clock > SESSION_TIMEOUT
  /\ \E p \in DOMAIN files : files[p].kind = "image"

\* C12: a name submission handled while the user's session is missing or
\* its image list is empty writes no PDF file and delivers no document: it
\* replies "no valid images" and its remaining step only returns END.
C12_EmptyListNoDocument ==
  [][/\ \A u \in Users :
          NameArrives(u) /\ ImagesOf(u) = <<>> =>
            /\ files' = files
            /\ delivered' = delivered
            /\ sent' = Reply(nseq', "no_valid_images")
            /\ tasks'[nseq'].pc = "reply"
            /\ tasks'[nseq'].pdf_path = <<>>
     /\ \A n \in DOMAIN tasks :
          /\ tasks[n].handler = "receive_pdf_name"
          /\ tasks[n].pc = "reply" /\ tasks[n].pdf_path = <<>>
          => /\ n \in DOMAIN tasks' => tasks'[n] = tasks[n]
             /\ n \notin DOMAIN tasks' => files' = files /\ delivered' = delivered]_vars

\* the list was cleared by an upload after the idle timeout while the
\* conversation was in ASK_NAME, and the name submitted then built nothing
C12_Witness ==
  /\ sent = Reply(nseq, "no_valid_images")
  /\ DOMAIN tasks = {nseq}
  /\ tasks[nseq].handler = "receive_pdf_name"
  /\ user_sessions[tasks[nseq].user] # None
  /\ ImagesOf(tasks[nseq].user) = <<>>
  /\ delivered = NoDocument
  /\ \E p \in DOMAIN files : files[p].kind = "image"
  /\ \A p \in DOMAIN files : files[p].kind # "pdf"

\* C13 as stated: a user has an entry in user_sessions only if at least
\* one of that user's uploads has been accepted; rejected uploads and
\* triggers create no entry.
C13_EntryOnlyAfterAccept ==
  \A u \in Users : user_sessions[u] # None => used[u].accepted > 0

\* C13 amended: a user has an entry in user_sessions exactly when at least
\* one upload of that user has been handled by handle_images, whether it
\* was accepted or rejected; triggers and name submissions create no entry,
\* and no entry is ever removed.
C13_EntryOnFirstUpload ==
  \A u \in Users : user_sessions[u] # None <=> used[u].uploads > 0

\* the only upload so far was rejected as unsupported and after it a
\* trigger was answered "no images": the entry exists, with an empty list
C13_Witness ==
  /\ used[1].uploads = 1 /\ used[1].accepted = 0
  /\ tasks = <<>>
  /\ files = <<>>
  /\ sent.msg = "no_images"
  /\ user_sessions[1] # None
  /\ heap[user_sessions[1]].images = <<>>

\* C14: handlers of one user's updates interleave at their awaits, and an
\* upload acknowledged with "Image saved" is appended to the session dict
\* its handler obtained when it started: the image is in the user's current
\* list exactly when that dict is still the user's entry.  When a build
\* replaced the entry in between, the acknowledged image is in no current
\* list and in no delivered PDF.
C14_Acknowledged(n) ==
  /\ DownloadEnds(n)
  /\ sent' = Reply(n, "saved")

\* the image list of user u's current session after the step
C14_ImagesAfter(u) ==
  IF user_sessions'[u] = None THEN <<>> ELSE heap'[user_sessions'[u]].images

C14_InCurrentList(u, n) ==
  \E i \in DOMAIN C14_ImagesAfter(u) : C14_ImagesAfter(u)[i].seq = n

C14_AppendToStartSession ==
  [][\A n \in DOMAIN tasks :
       C14_Acknowledged(n) =>
         /\ C14_InCurrentList(tasks[n].user, n)
               <=> tasks[n].session = user_sessions[tasks[n].user]
         /\ tasks[n].session # user_sessions[tasks[n].user] =>
               /\ C14_ImagesAfter(tasks[n].user) = ImagesOf(tasks[n].user)
               /\ delivered' = delivered
               /\ \A i \in DOMAIN delivered.pages : delivered.pages[i].seq # n]_vars

\* both uploads were acknowledged, the PDF built while the second one was
\* downloading holds the first only, and the session that replaced the old
\* one is empty: the second image is in no list and in no PDF
C14_Witness ==
  /\ sent.msg = "saved"
  /\ clock = 0
  /\ tasks = <<>>
  /\ used[1].accepted = 2
  /\ delivered.kind = "pdf" /\ Len(delivered.pages) = 1
  /\ delivered.pages[1].seq # sent.n
  /\ ImagesOf(1) = <<>>
  /\ \E p \in DOMAIN files : files[p].kind = "image"

\* C15: when BOT_TOKEN or WEBHOOK_URL is unset the process aborts without
\* the web server having handled any request (health check or /webhook),
\* and no /webhook request is handled while telegram_app is unset.
C15_NoTrafficBeforeAbort ==
  /\ ~proc.token \/ ~proc.url =>
       /\ proc.main \in {"main", "run_bot", "exited"}
       /\ proc.home = 0 /\ proc.scheduled = 0 /\ proc.failed = 0
  /\ proc.failed = 0

\* C16: a receive_pdf_name call returns END on each of its outcomes (no
\* valid images, PDF write error, delivery error, success), so the
\* conversation is at END when the call has returned; the call writes the
\* PDF at most once and attempts the delivery at most once, and no handler
\* starts except for a newly arrived update.
C16_Ends(n) ==
  /\ conv'[tasks[n].user] = END
  /\ tasks[n].pc = "send" => delivered' # delivered /\ delivered'.n = n

C16_NoRetry(n) ==
  /\ tasks[n].pc = "reply" => tasks'[n] = tasks[n]
  /\ tasks[n].pc = "send" =>
       \/ tasks'[n] = tasks[n]
       \/ tasks'[n].pc = "reply" /\ sent' = Reply(n, "send_error")
  /\ tasks'[n].pc # tasks[n].pc =>
       \A p \in DOMAIN files' : p \in DOMAIN files /\ files'[p] = files[p]

C16_NameSubmissionEnds ==
  [][/\ \A n \in DOMAIN tasks :
          tasks[n].handler = "receive_pdf_name" =>
            IF n \in DOMAIN tasks' THEN C16_NoRetry(n) ELSE C16_Ends(n)
     /\ \A n \in DOMAIN tasks' :
          tasks'[n].handler = "receive_pdf_name" => tasks'[n].result = END
     /\ \A n \in DOMAIN tasks' \ DOMAIN tasks :
          /\ n = nseq' /\ nseq' = nseq + 1
          /\ \E u \in Users : UploadArrives(u) \/ TextArrives(u)]_vars

\* a name submission whose delivery failed has returned: the conversation
\* is at END with the images still in the session
C16_Witness ==
  /\ sent.msg = "send_error"
  /\ tasks = <<>>
  /\ conv[1] = END
  /\ ImagesOf(1) # <<>>
  /\ \E p \in DOMAIN files : files[p].kind = "pdf"

\* C17: when the download of an upload leaves a zero-length file, "file
\* empty" is replied, the file is removed from storage and no list gains
\* the path; the image list of the session and the stored files of the
\* images already in it are as they were.
C17_ListFilesKept(n) ==
  LET imgs == heap[tasks[n].session].images
  IN  /\ \A o \in DOMAIN heap \cap DOMAIN heap' : heap'[o].images = heap[o].images
      /\ \A i \in DOMAIN imgs :
           imgs[i].path \in DOMAIN files =>
             /\ imgs[i].path \in DOMAIN files'
             /\ files'[imgs[i].path] = files[imgs[i].path]

C17_EmptyDownloadRejected ==
  [][\A n \in DOMAIN tasks :
       /\ (DownloadEnds(n) /\ sent' = Reply(n, "empty")) =>
             /\ n \in DOMAIN tasks' /\ tasks'[n].pc = "reply_empty"
             /\ C17_ListFilesKept(n)
       /\ (tasks[n].pc = "reply_empty" /\ n \notin DOMAIN tasks') =>
             /\ tasks[n].file_path \notin DOMAIN files'
             /\ C17_ListFilesKept(n)]_vars

\* C18: a step taken for user A (an update of A arriving, or a handler of
\* A going on) leaves the session entry, the image list and the last_active
\* of every other user B as they were, and every page of a PDF delivered
\* to A is an image that A uploaded and that A's session list held.
C18_Acts(a) ==
  \/ used'[a] # used[a]
  \/ \E n \in DOMAIN tasks :
       /\ tasks[n].user = a
       /\ n \notin DOMAIN tasks' \/ tasks'[n].pc # tasks[n].pc

C18_OwnedBy(path, u) ==
  /\ Len(path) > Len(str(u))
  /\ SubSeq(path, 1, Len(str(u)) + 1) = str(u) \o <<"_">>

C18_SessionsIsolated ==
  [][/\ \A a, b \in Users :
          a # b /\ C18_Acts(a) =>
            /\ user_sessions'[b] = user_sessions[b]
            /\ user_sessions[b] # None =>
                  heap'[user_sessions[b]] = heap[user_sessions[b]]
     /\ \A a \in Users :
          NameArrives(a) =>
            /\ tasks'[nseq'].user = a
            /\ Range(tasks'[nseq'].doc) \subseteq Range(ImagesOf(a))
     /\ delivered' # delivered =>
          /\ delivered'.n \in DOMAIN tasks
          /\ delivered'.to = tasks[delivered'.n].user
          /\ delivered'.pages = tasks[delivered'.n].doc
          /\ \A i \in DOMAIN delivered'.pages :
               C18_OwnedBy(delivered'.pages[i].path, delivered'.to)]_vars

\* user 1's PDF was delivered and its session reset while user 2's image
\* stayed in user 2's list and on storage
C18_Witness ==
  /\ delivered.to = 1 /\ delivered.kind = "pdf" /\ delivered.pages # <<>>
  /\ ImagesOf(1) = <<>>
  /\ ImagesOf(2) # <<>>
  /\ \A i \in DOMAIN ImagesOf(2) :
       /\ C18_OwnedBy(ImagesOf(2)[i].path, 2)
       /\ ImagesOf(2)[i].path \in DOMAIN files
  /\ \A p \in DOMAIN files : ~C18_OwnedBy(p, 1)

\* path p is in the image list of the current session of its owner
C19_Referenced(p) ==
  \E u \in Users : \E i \in DOMAIN ImagesOf(u) :
    /\ ImagesOf(u)[i].path = p
    /\ C18_OwnedBy(p, u)

\* C19: whenever no handler is in progress, every image file on storage
\* that handle_images wrote is referenced by the image list of its owner's
\* current session; the files of a list cleared by timeout are not left on
\* storage unreferenced.
C19_NoOrphanImage ==
  tasks = <<>> =>
    \A p \in DOMAIN files : files[p].kind = "image" => C19_Referenced(p)

====
